---------------------------- MODULE Spec2Model ----------------------------
(***************************************************************************)
(* AdvancedReactorSimulator (src/reactor-sim.tsx): the physics/state       *)
(* integrator of the reactor simulator, as a state machine.                *)
(*                                                                         *)
(* The simulator computes in IEEE doubles.  Here every real quantity is an *)
(* integer count of a fixed unit, and a product that is divided is         *)
(* truncated toward zero:                                                  *)
(*   dt, time, history t, alarm time      1 ms                             *)
(*   rodPosition, targetRodPosition       1e-4 %   (PerCent = 10000)       *)
(*   reactivities                         0.1 pcm  (rho = r * 1e-6)        *)
(*   keff                                 1e-6                             *)
(*   neutronDensity                       1e-9                             *)
(*   precursors[i]                        1e-9 * beta_i/(lambda_i*Lambda)  *)
(*                                        (the density the group is in     *)
(*                                        equilibrium with)                *)
(*   thermalPower                         1 W      (1e-6 MW)               *)
(*   fuelTemp, coolantTemp                1e-6 degC                        *)
(*   iodineConc, xenonConc                1e-9                             *)
(*   startupRate                          1e-6 decades/min                 *)
(*   period, doublingTime                 a rational num/den of seconds,   *)
(*                                        or Infinity                      *)
(*   totalEnergyMWh                       1 W*ms (1 MWh = 3.6e12), held as *)
(*                                        hi * 1e9 + lo                    *)
(* A field that holds NaN in the simulator holds NaN here.  A number       *)
(* wider than 32 bits is held at MaxInt; this happens to intermediate      *)
(* values that are clamped before they are stored, and to the precursors   *)
(* of a step 50 minutes back.  step(dt) is modelled for |dt| <= 200 ms and *)
(* for dt so negative that Math.exp(-dt / 3.0) is Infinity.                *)
(***************************************************************************)
EXTENDS Integers, Sequences, FiniteSets, TLC

VARIABLES
    reactor,   \* the AdvancedReactorSimulator instance: a record of its fields
    returned,  \* the value returned by the last step() call (a list of alarms)
    call,      \* the last call made on the instance: [op, arg]
    before,    \* the instance as it was when that call was made
    calls,     \* number of calls made since construction (bounds the model)
    tripCount  \* App: the trips the run loop has counted

vars == <<reactor, returned, call, before, calls, tripCount>>

---------------------------------------------------------------------------
(* Units *)

PerCent == 10000
Pcm == 10
Million == 1000000
Billion == 1000000000
Watt == 1
MW == 1000000
DegC == 1000000
MsPerSecond == 1000
\* the largest 32-bit integer, 2^31 - 1
MaxInt == (2^30 - 1) * 2 + 1

---------------------------------------------------------------------------
(* REACTOR_CONSTANTS, in the units above *)

BETA_TOTAL == 6500
GENERATION_TIME == 24
SOURCE_STRENGTH == 100
ROD_SPEED == 5
DOPPLER_COEFF == -25
MODERATOR_COEFF == -8
MIN_TEMP == 550000000
NORMAL_TEMP == 650000000
MAX_TEMP == 750000000
MAX_POWER == 250000000
SCRAM_POWER == 300000000
SCRAM_TEMP == 750000000
SCRAM_PERIOD == 10
XENON_MAX_WORTH == -30000

SHUTDOWN == "shutdown"
SUBCRITICAL == "subcritical"
CRITICAL == "critical"
POWER_ASCENSION == "power_ascension"
AT_POWER == "at_power"
SCRAMMED == "scrammed"
REACTOR_PHASE == {SHUTDOWN, SUBCRITICAL, CRITICAL, POWER_ASCENSION, AT_POWER, SCRAMMED}

WARNING == "warning"
TRIP == "trip"

\* delayedGroups: beta in 1e-6, lambda in 1e-4 per second
delayedGroups ==
    << [beta |-> 250,  lambda |-> 124],
       [beta |-> 1360, lambda |-> 305],
       [beta |-> 1200, lambda |-> 1110],
       [beta |-> 2570, lambda |-> 3010],
       [beta |-> 750,  lambda |-> 11400],
       [beta |-> 270,  lambda |-> 30100] >>

---------------------------------------------------------------------------
(* Arithmetic *)

Abs(x) == IF x < 0 THEN -x ELSE x
Sign(x) == IF x > 0 THEN 1 ELSE IF x < 0 THEN -1 ELSE 0
Min(a, b) == IF a < b THEN a ELSE b
Max(a, b) == IF a > b THEN a ELSE b

\* NaN, the value of a field that is not a number: Math.min, Math.max and the
\* arithmetic operators return it when an operand is NaN, and a comparison
\* with it is false.  No number of the model is as low as -MaxInt.
NaN == -MaxInt
IsNaN(x) == x = NaN
\* a < b and a > b as JavaScript compares numbers
LessThan(a, b) == ~IsNaN(a) /\ ~IsNaN(b) /\ a < b
GreaterThan(a, b) == ~IsNaN(a) /\ ~IsNaN(b) /\ a > b

\* function clamp(value, min, max), for numbers min <= max
clamp(value, min, max) == IF IsNaN(value) THEN NaN ELSE Max(min, Min(max, value))

\* a + b, held at -MaxInt and MaxInt
SatSum(a, b) ==
    IF b > 0 /\ a > MaxInt - b THEN MaxInt
    ELSE IF b < 0 /\ a < (-MaxInt) - b THEN -MaxInt
    ELSE a + b

\* a / b truncated toward zero, b > 0
Quot(a, b) == IF a >= 0 THEN a \div b ELSE -((-a) \div b)

\* F(e), with e evaluated once, before F
Bind(e, F(_)) == CHOOSE y \in {F(x) : x \in {e}} : TRUE

(* Products wider than 32 bits are held as five digits <<d1, .., d5>> of    *)
(* base 10^4, least significant first; d1..d4 are in 0..9999 and d5 has the *)
(* sign of the number.                                                      *)
Base == 100 * 100

\* carries propagated through five columns of any integers
WideNorm(v) ==
    LET w2 == v[2] + v[1] \div Base
        w3 == v[3] + w2 \div Base
        w4 == v[4] + w3 \div Base
        w5 == v[5] + w4 \div Base
    IN  <<v[1] % Base, w2 % Base, w3 % Base, w4 % Base, w5>>

\* a * b for integers a and b
WideMul(a, b) ==
    LET s  == Sign(a) * Sign(b)
        x  == Abs(a)
        y  == Abs(b)
        x1 == x % Base
        x2 == (x \div Base) % Base
        x3 == x \div (Base * Base)
        y1 == s * (y % Base)
        y2 == s * ((y \div Base) % Base)
        y3 == s * (y \div (Base * Base))
    IN  WideNorm(<<x1 * y1,
                   x1 * y2 + x2 * y1,
                   x1 * y3 + x2 * y2 + x3 * y1,
                   x2 * y3 + x3 * y2,
                   x3 * y3>>)

WideAdd(v, w) == WideNorm(<<v[1] + w[1], v[2] + w[2], v[3] + w[3], v[4] + w[4], v[5] + w[5]>>)
WideNeg(v) == WideNorm(<<-v[1], -v[2], -v[3], -v[4], -v[5]>>)
\* v * k for an integer |k| <= 200000
WideScale(v, k) == WideNorm(<<v[1] * k, v[2] * k, v[3] * k, v[4] * k, v[5] * k>>)
\* v * k for an integer |k| <= 200000000
WideTimes(v, k) ==
    IF Abs(k) <= 200000 THEN WideScale(v, k)
    ELSE WideAdd(WideScale(WideScale(v, Quot(k, 1000)), 1000),
                 WideScale(v, k - 1000 * Quot(k, 1000)))
WideSign(v) ==
    IF v[5] < 0 THEN -1
    ELSE IF v[5] = 0 /\ v[4] = 0 /\ v[3] = 0 /\ v[2] = 0 /\ v[1] = 0 THEN 0
    ELSE 1
WideAbs(v) == IF v[5] < 0 THEN WideNeg(v) ELSE v

\* floor(v / c) for v >= 0 and 0 < c <= 200000
WideDiv(v, c) ==
    LET t4 == (v[5] % c) * Base + v[4]
        t3 == (t4 % c) * Base + v[3]
        t2 == (t3 % c) * Base + v[2]
        t1 == (t2 % c) * Base + v[1]
    IN  WideNorm(<<t1 \div c, t2 \div c, t3 \div c, t4 \div c, v[5] \div c>>)

\* the integer v >= 0, held at MaxInt when it is wider than 32 bits
WideInt(v) ==
    IF v[5] > 0 \/ v[4] > 0 \/ v[3] > 21 \/ (v[3] = 21 /\ v[2] * Base + v[1] > 47483647)
    THEN MaxInt
    ELSE (v[3] * Base + v[2]) * Base + v[1]

\* v / c truncated toward zero, 0 < c <= 200000, held at -MaxInt and MaxInt
WideQuot(v, c) == WideSign(v) * WideInt(WideDiv(WideAbs(v), c))

\* a * b / c truncated toward zero, 0 < c <= 200000, held at -MaxInt and MaxInt
MulDiv(a, b, c) ==
    IF a = 0 \/ b = 0 THEN 0
    ELSE IF Abs(a) <= MaxInt \div Abs(b) THEN Quot(a * b, c)
    ELSE WideQuot(WideMul(a, b), c)

\* a * b / (c1 * c2) truncated toward zero, 0 < c1, c2 <= 200000, held at
\* -MaxInt and MaxInt
MulDiv2(a, b, c1, c2) ==
    IF a = 0 \/ b = 0 THEN 0
    ELSE Sign(a) * Sign(b) * WideInt(WideDiv(WideDiv(WideMul(Abs(a), Abs(b)), c1), c2))

---------------------------------------------------------------------------
(* Number: period and doublingTime are a ratio num/den of seconds, den > 0, *)
(* or Infinity                                                              *)

Infinity == [inf |-> TRUE, num |-> 1, den |-> 0]
Ratio(num, den) == [inf |-> FALSE, num |-> num, den |-> den]
IsFinite(p) == ~p.inf
\* p < k and p > k for an integer k >= 0
Less(p, k) == ~p.inf /\ (p.num < 0 \/ p.num \div p.den < k)
\* |p| > k: Greater with the sign of the period dropped
GreaterInMagnitude(p, k) ==
    p.inf \/ (Abs(p.num) \div p.den > k \/ (Abs(p.num) \div p.den = k /\ Abs(p.num) % p.den > 0))
Greater(p, k) ==
    p.inf \/ (p.num > 0 /\ (p.num \div p.den > k \/ (p.num \div p.den = k /\ p.num % p.den > 0)))

---------------------------------------------------------------------------
(* Math.tanh, Math.exp *)

\* tanh(i/100) * 1e6 for i = 0 .. 200
tanhTable ==
  <<
     0, 10000, 19997, 29991, 39979, 49958, 59928, 69886, 79830, 89758,
     99668, 109558, 119427, 129273, 139092, 148885, 158649, 168381, 178081, 187746,
     197375, 206966, 216518, 226028, 235496, 244919, 254296, 263625, 272905, 282135,
     291313, 300437, 309507, 318521, 327477, 336376, 345214, 353992, 362707, 371360,
     379949, 388473, 396930, 405321, 413644, 421899, 430084, 438199, 446244, 454216,
     462117, 469945, 477700, 485381, 492988, 500520, 507977, 515359, 522665, 529896,
     537050, 544127, 551128, 558052, 564900, 571670, 578363, 584980, 591519, 597982,
     604368, 610677, 616909, 623065, 629145, 635149, 641077, 646929, 652707, 658409,
     664037, 669590, 675070, 680476, 685809, 691069, 696258, 701374, 706419, 711394,
     716298, 721132, 725897, 730594, 735222, 739783, 744277, 748704, 753066, 757362,
     761594, 765762, 769867, 773908, 777888, 781806, 785664, 789461, 793199, 796878,
     800499, 804062, 807569, 811019, 814414, 817754, 821040, 824272, 827452, 830579,
     833655, 836679, 839654, 842579, 845456, 848284, 851064, 853798, 856485, 859127,
     861723, 864275, 866784, 869249, 871672, 874053, 876393, 878692, 880951, 883171,
     885352, 887494, 889599, 891667, 893698, 895693, 897653, 899577, 901468, 903325,
     905148, 906939, 908698, 910425, 912120, 913785, 915420, 917026, 918602, 920149,
     921669, 923160, 924624, 926062, 927473, 928858, 930217, 931552, 932862, 934147,
     935409, 936648, 937863, 939056, 940227, 941376, 942503, 943609, 944695, 945761,
     946806, 947832, 948838, 949826, 950795, 951746, 952679, 953594, 954492, 955373,
     956237, 957085, 957917, 958733, 959534, 960319, 961090, 961846, 962587, 963314,
     964028
  >>

\* Math.tanh(z) * 1e6 for z in 1e-6, 0 <= z <= 2: the table, interpolated
tanh(z) ==
    LET i == z \div 10000
        f == z % 10000
    IN  IF f = 0 THEN tanhTable[i + 1]
        ELSE tanhTable[i + 1] + ((tanhTable[i + 2] - tanhTable[i + 1]) * f) \div 10000

\* Math.exp(-dt / 3.0) is Infinity when -dt / 3.0 > 709.78 (the largest
\* argument whose exponential is a double), dt in ms
ExpOverflows(dt) == dt < -2129348

\* powerAlpha with the sign of the exponent slipped: 1 - Math.exp(dt / 3.0)
powerAlphaGrowing(dt) ==
    -(Quot(dt * Million, 3) + (dt * dt * 500) \div 9 + Quot(dt * dt * dt, 162)
        + (dt * dt * dt * dt) \div 1944000)

\* (1 - Math.exp(-dt / 3.0)) * 1e9 for dt in ms, |dt| <= 200: the series
\* x - x^2/2 + x^3/6 - x^4/24 with x = dt/3000
powerAlpha(dt) ==
    Quot(dt * Million, 3) - (dt * dt * 500) \div 9 + Quot(dt * dt * dt, 162)
        - (dt * dt * dt * dt) \div 1944000

---------------------------------------------------------------------------
(* ReactivityModels *)

\* calculateRodWorth, the branch x <= criticalPoint: 0.1 pcm, position in 1e-4 %
withdrawnWorth(position) ==
    LET maxPositiveWorth == 3000 * Pcm
    IN  maxPositiveWorth - MulDiv2(maxPositiveWorth, position, 35, PerCent)

\* the branch x > criticalPoint with the sign of the worth slipped
insertedWorthRising(position) ==
    LET criticalPoint == 35 * PerCent
        maxNegativeWorth == 5000 * Pcm
        fraction2 == MulDiv2(position - criticalPoint, 2 * Million, 100 - 35, PerCent)
    IN  MulDiv2(maxNegativeWorth, tanh(fraction2), 1000, 1000)

\* calculateRodWorth, the branch x > criticalPoint
insertedWorth(position) ==
    LET criticalPoint == 35 * PerCent
        maxNegativeWorth == -5000 * Pcm
        \* fraction * 2, in 1e-6
        fraction2 == MulDiv2(position - criticalPoint, 2 * Million, 100 - 35, PerCent)
    IN  MulDiv2(maxNegativeWorth, tanh(fraction2), 1000, 1000)

\* calculateRodWorth(position): 0.1 pcm, position in 1e-4 %
calculateRodWorth(position) ==
    LET criticalPoint == 35 * PerCent
    IN  IF position <= criticalPoint THEN withdrawnWorth(position) ELSE insertedWorth(position)

calculateTempFeedback(s) ==
    LET fuelFeedback == MulDiv2(DOPPLER_COEFF, s.fuelTemp - NORMAL_TEMP, 1000, 1000)
        coolantFeedback == MulDiv2(MODERATOR_COEFF, s.coolantTemp - NORMAL_TEMP, 1000, 1000)
    IN  IF IsNaN(s.fuelTemp) \/ IsNaN(s.coolantTemp) THEN NaN
        ELSE fuelFeedback + coolantFeedback

calculateXenonWorth(s) ==
    IF IsNaN(s.xenonConc) THEN NaN
    ELSE MulDiv2(XENON_MAX_WORTH, s.xenonConc, Base, 100000)

---------------------------------------------------------------------------
(* NeutronicsEngine *)

\* this.keff = clamp(1 / (1 - rho), 0.85, 1.15): 1e12 / (1e6 - rho) by long
\* division in base 1000
KeffOf(rho) ==
    LET d == Million - rho
        r == (1000 * Million) % d
    IN  clamp(((1000 * Million) \div d) * 1000 + (r * 1000) \div d, 850000, 1150000)

\* the period of updateNeutronics, for rho in 1e-6; Lambda = 24e-6
PeriodOf(rho) ==
    IF Abs(rho) > 1
    THEN IF rho > BETA_TOTAL THEN Ratio(GENERATION_TIME, rho - BETA_TOTAL)
         ELSE IF rho > 0
              \* beta / (rho * Lambda) = 6500e6 / (24 rho) = 812500000 / (3 rho)
              THEN Ratio(BETA_TOTAL * (Million \div 8), (GENERATION_TIME \div 8) * rho)
              ELSE Ratio(-GENERATION_TIME, Abs(rho))
    ELSE Infinity

\* this.doublingTime = this.period * Math.log(2), Math.log(2) = 0.6931
DoublingTimeOf(period) ==
    IF period.inf THEN Infinity
    ELSE IF Abs(period.num) > 200000 THEN Ratio((period.num \div Base) * 6931, period.den)
    ELSE Ratio(period.num * 6931, period.den * Base)

\* 26.06 / period when the period is finite and |period| > 0.1, else 0;
\* period.num is 24, -24 or 812500000
StartupRateOf(period) ==
    IF IsFinite(period) /\ Abs(period.num) > period.den \div 10
    THEN IF Abs(period.num) > 200000
         THEN MulDiv2(26060000, period.den, Base, period.num \div Base)
         ELSE Sign(period.num) * MulDiv(26060000, period.den, Abs(period.num))
    ELSE 0

\* dndt * dt of the point-kinetics branch, after the rate limiter, in 1e-9.
\* dndt * Lambda = (rho - beta) n + sum beta_i c_i + S, in 1e-15
KineticsStep(s, rho, dt) ==
    LET n == s.neutronDensity
        dndt ==
            WideAdd(WideAdd(WideAdd(WideMul(rho - BETA_TOTAL, n),
                                    WideMul(Million, SOURCE_STRENGTH)),
                            WideAdd(WideMul(delayedGroups[1].beta, s.precursors[1]),
                                    WideMul(delayedGroups[2].beta, s.precursors[2]))),
                    WideAdd(WideAdd(WideMul(delayedGroups[3].beta, s.precursors[3]),
                                    WideMul(delayedGroups[4].beta, s.precursors[4])),
                            WideAdd(WideMul(delayedGroups[5].beta, s.precursors[5]),
                                    WideMul(delayedGroups[6].beta, s.precursors[6]))))
        dn == WideTimes(dndt, dt)
        \* maxRate * n * dt = 0.2 n; maxRate = 0.2 / dt is negative for dt < 0
        \* and Infinity for dt = 0
        limit == WideMul((MsPerSecond * GENERATION_TIME) \div 5, n)
        limited == n > 1000
                   /\ (dt < 0 \/ (dt > 0 /\ WideSign(WideAdd(WideAbs(dn), WideNeg(limit))) > 0))
    IN  IF limited
        THEN WideSign(dndt) * (n \div 5)
        ELSE WideQuot(dn, MsPerSecond * GENERATION_TIME)

\* the precursor loop: precursors[i] + (production - decay) * dt, not below 0,
\* with the neutron density n the loop reads; (production - decay) * dt is
\* (n - c) * lambda * dt
PrecursorStep(c, group, n, dt) ==
    LET d == SatSum(n, -c)
        change == IF Abs(dt) <= 200
                  THEN MulDiv2(d, group.lambda * dt, Base, 1000)
                  ELSE Sign(d) * Sign(dt)
                       * WideInt(WideDiv(WideDiv(WideTimes(WideMul(Abs(d), group.lambda), Abs(dt)),
                                                 Base), 1000))
    IN  Max(0, SatSum(c, change))

\* the upper clamp of thermalPower set above the trip setpoint: MAX_POWER * 1.3
thermalPowerLimitAboveTrip == MulDiv(MAX_POWER, 13, 10)

\* the upper clamp of thermalPower: REACTOR_CONSTANTS.MAX_POWER * 1.2
thermalPowerLimit == MulDiv(MAX_POWER, 12, 10)

updateNeutronics(s, dt) ==
    LET rodReactivity == calculateRodWorth(s.rodPosition)
        tempReactivity == calculateTempFeedback(s)
        xenonReactivity == calculateXenonWorth(s)
        totalReactivity == IF IsNaN(tempReactivity) \/ IsNaN(xenonReactivity) THEN NaN
                           ELSE rodReactivity + tempReactivity + xenonReactivity
        rho == totalReactivity
        keff == KeffOf(rho)
        period == PeriodOf(rho)
        S == SOURCE_STRENGTH
        n1 == IF rho < -10000
              THEN LET subcriticalLevel == (S * Million) \div (Million - keff)
                       \* approach = Math.min(1, dt * 0.5)
                       approach == Min(2 * MsPerSecond, dt)
                   IN  SatSum(s.neutronDensity,
                              MulDiv(subcriticalLevel - s.neutronDensity, approach, 2 * MsPerSecond))
              ELSE SatSum(s.neutronDensity, KineticsStep(s, rho, dt))
        precursors == [i \in 1..6 |-> PrecursorStep(s.precursors[i], delayedGroups[i], n1, dt)]
        neutronDensity == Max(S, Min(Billion, n1))
        alpha == powerAlpha(dt)
        \* targetPower * powerAlpha, targetPower = neutronDensity * MAX_POWER / 1e-3
        gain == Max(-Billion, Min(Billion, MulDiv2(neutronDensity, alpha, 4000, 1000)))
        \* powerAlpha is -Infinity when the exponential overflows, and
        \* thermalPower * Infinity - targetPower * Infinity is NaN
        thermalPower == IF ExpOverflows(dt) \/ IsNaN(s.thermalPower) THEN NaN
                        ELSE s.thermalPower - MulDiv2(s.thermalPower, alpha, Base, 100000) + gain
    IN  IF IsNaN(rho)
        \* every comparison with rho is false: the period is Infinity, the
        \* kinetics branch is taken and its rate limiter is not
        THEN [s EXCEPT !.rodReactivity = rodReactivity,
                       !.tempReactivity = tempReactivity,
                       !.xenonReactivity = xenonReactivity,
                       !.totalReactivity = NaN,
                       !.keff = NaN,
                       !.period = Infinity,
                       !.doublingTime = Infinity,
                       !.startupRate = 0,
                       !.precursors = [i \in 1..6 |-> NaN],
                       !.neutronDensity = NaN,
                       !.thermalPower = NaN]
        ELSE [s EXCEPT !.rodReactivity = rodReactivity,
                       !.tempReactivity = tempReactivity,
                       !.xenonReactivity = xenonReactivity,
                       !.totalReactivity = totalReactivity,
                       !.keff = keff,
                       !.period = period,
                       !.doublingTime = DoublingTimeOf(period),
                       !.startupRate = StartupRateOf(period),
                       !.precursors = precursors,
                       !.neutronDensity = neutronDensity,
                       !.thermalPower = clamp(thermalPower, 0, thermalPowerLimit)]

---------------------------------------------------------------------------
(* ThermalHydraulicsEngine *)

updateThermalHydraulics(s, dt) ==
    LET heatGenerated == s.thermalPower
        heatTransfer == 2 * (s.fuelTemp - s.coolantTemp)
        baseHeatRemoval == MulDiv(s.thermalPower, 95, 100)
        tempDrivenCooling == MulDiv(s.coolantTemp - MIN_TEMP, 5, 10)
        heatRemoved == Min(baseHeatRemoval + tempDrivenCooling, heatTransfer)
        ambientLoss == MulDiv(s.coolantTemp - MIN_TEMP, 1, 100)
        fuelHeatCapacity == 100
        fuelEnergyBalance == heatGenerated - heatTransfer
        fuelTemp == s.fuelTemp + MulDiv(fuelEnergyBalance, dt, fuelHeatCapacity * MsPerSecond)
        coolantHeatCapacity == 150
        coolantEnergyBalance == heatTransfer - heatRemoved - ambientLoss
        coolantTemp == s.coolantTemp + MulDiv(coolantEnergyBalance, dt, coolantHeatCapacity * MsPerSecond)
    IN  IF IsNaN(s.thermalPower) \/ IsNaN(s.fuelTemp) \/ IsNaN(s.coolantTemp)
        \* both energy balances hold heatTransfer and the power
        THEN [s EXCEPT !.fuelTemp = NaN, !.coolantTemp = NaN]
        ELSE [s EXCEPT !.fuelTemp = clamp(fuelTemp, MIN_TEMP, MAX_TEMP + 50 * DegC),
                       !.coolantTemp = clamp(coolantTemp, MIN_TEMP, MAX_TEMP)]

---------------------------------------------------------------------------
(* XenonDynamicsEngine *)

\* normalizedFlux = thermalPower / MAX_POWER is folded into each term:
\* a rate k * normalizedFlux over dt ms is thermalPower * k * dt * 4e-9 / 1e-9
updateXenonDynamics(s, dt) ==
    LET \* iodineYield * normalizedFlux * 0.002 * dt
        iodineProduction == MulDiv2(s.thermalPower, 61 * dt, 1000, 125000)
        \* iodineDecayConstant * iodineConc * 10 * dt
        iodineDecay == MulDiv2(s.iodineConc, 29 * dt, Base, Base)
        iodineConc == IF IsNaN(s.thermalPower) \/ IsNaN(s.iodineConc) THEN NaN
                      ELSE Max(0, Min(Billion, s.iodineConc + iodineProduction - iodineDecay))
        xenonFromIodine == iodineDecay
        \* xenonDirectYield * normalizedFlux * 0.002 * dt
        directXenon == MulDiv2(s.thermalPower, 3 * dt, 1000, 125000)
        \* xenonDecayConstant * xenonConc * 10 * dt
        xenonDecay == MulDiv2(s.xenonConc, 21 * dt, Base, Base)
        \* xenonBurnupRate * normalizedFlux * xenonConc * dt
        xenonBurnup == MulDiv(MulDiv2(s.xenonConc, s.thermalPower, Base, MAX_POWER \div Base), dt, 5 * MsPerSecond)
        xenonConc == IF IsNaN(s.thermalPower) \/ IsNaN(s.iodineConc) \/ IsNaN(s.xenonConc)
                     THEN NaN
                     ELSE Max(0, Min(Billion, s.xenonConc + xenonFromIodine + directXenon
                                               - xenonDecay - xenonBurnup))
    IN  [s EXCEPT !.iodineConc = iodineConc, !.xenonConc = xenonConc]

---------------------------------------------------------------------------
(* ControlRodActuator *)

\* updateControlRods moving the rods by one frame's travel whatever dt is
updateControlRodsPerCall(s, dt) ==
    LET rodDiff == s.targetRodPosition - s.rodPosition
        maxMove == ROD_SPEED * 50
        rodPosition == IF Abs(rodDiff) > maxMove
                       THEN s.rodPosition + Sign(rodDiff) * maxMove
                       ELSE s.targetRodPosition
    IN  [s EXCEPT !.rodPosition = clamp(rodPosition, 0, 100 * PerCent)]

\* updateControlRods that does not close a gap within one move of the target
updateControlRodsStopsShort(s, dt) ==
    LET rodDiff == s.targetRodPosition - s.rodPosition
        maxMove == ROD_SPEED * dt
        rodPosition == IF Abs(rodDiff) > maxMove
                       THEN s.rodPosition + Sign(rodDiff) * maxMove
                       ELSE s.rodPosition
    IN  [s EXCEPT !.rodPosition = clamp(rodPosition, 0, 100 * PerCent)]

\* updateControlRods that always moves by the full travel of the step
updateControlRodsOvershoots(s, dt) ==
    LET rodDiff == s.targetRodPosition - s.rodPosition
        maxMove == ROD_SPEED * dt
        rodPosition == s.rodPosition + Sign(rodDiff) * maxMove
    IN  [s EXCEPT !.rodPosition = clamp(rodPosition, 0, 100 * PerCent)]

updateControlRods(s, dt) ==
    LET rodDiff == s.targetRodPosition - s.rodPosition
        maxMove == ROD_SPEED * dt
        rodPosition == IF Abs(rodDiff) > maxMove
                       THEN s.rodPosition + Sign(rodDiff) * maxMove
                       ELSE s.targetRodPosition
    IN  [s EXCEPT !.rodPosition = clamp(rodPosition, 0, 100 * PerCent)]

\* moveRods storing the target as it is given
moveRodsUnclamped(s, targetPosition) ==
    [s EXCEPT !.targetRodPosition = targetPosition]

moveRods(s, targetPosition) ==
    [s EXCEPT !.targetRodPosition = clamp(targetPosition, 0, 100 * PerCent)]

insertRods(s, percent) == moveRods(s, s.targetRodPosition + percent)

withdrawRods(s, percent) == moveRods(s, s.targetRodPosition - percent)

---------------------------------------------------------------------------
(* PhaseClassifier *)

\* updatePhase without its early return: it classifies a scrammed reactor too
updatePhaseAlways(s) ==
    IF LessThan(s.keff, 950000) THEN [s EXCEPT !.phase = SHUTDOWN]
    ELSE IF LessThan(s.keff, 999000) THEN [s EXCEPT !.phase = SUBCRITICAL]
    ELSE IF LessThan(s.thermalPower, 1 * MW) THEN [s EXCEPT !.phase = CRITICAL]
    ELSE IF LessThan(s.thermalPower, MulDiv(MAX_POWER, 9, 10))
         THEN [s EXCEPT !.phase = POWER_ASCENSION]
    ELSE [s EXCEPT !.phase = AT_POWER]

\* updatePhase without the SUBCRITICAL band: keff >= 0.95 is classified by power
updatePhaseByPower(s) ==
    IF s.phase = SCRAMMED THEN s
    ELSE IF LessThan(s.keff, 950000) THEN [s EXCEPT !.phase = SHUTDOWN]
    ELSE IF LessThan(s.thermalPower, 1 * MW) THEN [s EXCEPT !.phase = CRITICAL]
    ELSE IF LessThan(s.thermalPower, MulDiv(MAX_POWER, 9, 10))
         THEN [s EXCEPT !.phase = POWER_ASCENSION]
    ELSE [s EXCEPT !.phase = AT_POWER]

updatePhase(s) ==
    IF s.phase = SCRAMMED THEN s
    ELSE IF LessThan(s.keff, 950000) THEN [s EXCEPT !.phase = SHUTDOWN]
    ELSE IF LessThan(s.keff, 999000) THEN [s EXCEPT !.phase = SUBCRITICAL]
    ELSE IF LessThan(s.thermalPower, 1 * MW) THEN [s EXCEPT !.phase = CRITICAL]
    ELSE IF LessThan(s.thermalPower, MulDiv(MAX_POWER, 9, 10))
         THEN [s EXCEPT !.phase = POWER_ASCENSION]
    ELSE [s EXCEPT !.phase = AT_POWER]

---------------------------------------------------------------------------
(* AlarmMonitor *)

\* scram without its guard: every call kicks the rods
scramEveryCall(s) ==
    [s EXCEPT !.phase = SCRAMMED,
              !.targetRodPosition = 100 * PerCent,
              !.rodPosition = Min(100 * PerCent, s.rodPosition + 5 * PerCent)]

\* scram without the immediate insertion
scramWithoutKick(s) ==
    IF s.phase # SCRAMMED
    THEN [s EXCEPT !.phase = SCRAMMED, !.targetRodPosition = 100 * PerCent]
    ELSE s

\* scram that inserts the rods and leaves the phase as it is
scramKeepsPhase(s) ==
    IF s.phase # SCRAMMED
    THEN [s EXCEPT !.targetRodPosition = 100 * PerCent,
                   !.rodPosition = Min(100 * PerCent, s.rodPosition + 5 * PerCent)]
    ELSE s

scram(s) ==
    IF s.phase # SCRAMMED
    THEN [s EXCEPT !.phase = SCRAMMED,
                   !.targetRodPosition = 100 * PerCent,
                   !.rodPosition = Min(100 * PerCent, s.rodPosition + 5 * PerCent)]
    ELSE s

Alarm(level, message, time) == [level |-> level, message |-> message, time |-> time]

\* checkAlarms whose high-temperature trip raises the alarm without scramming
checkAlarmsTempAlarmOnly(s) ==
    LET shortPeriod == Greater(s.period, 0) /\ Less(s.period, SCRAM_PERIOD)
        s1 == IF shortPeriod THEN scram(s) ELSE s
        a1 == IF shortPeriod THEN <<Alarm(TRIP, "REACTOR TRIP: Short period", s.time)>> ELSE <<>>
        highPower == GreaterThan(s1.thermalPower, SCRAM_POWER)
        s2 == IF highPower THEN scram(s1) ELSE s1
        a2 == IF highPower THEN <<Alarm(TRIP, "REACTOR TRIP: High power", s.time)>> ELSE <<>>
        highTemp == GreaterThan(s2.fuelTemp, SCRAM_TEMP) \/ GreaterThan(s2.coolantTemp, SCRAM_TEMP)
        a3 == IF highTemp THEN <<Alarm(TRIP, "REACTOR TRIP: High temperature", s.time)>> ELSE <<>>
        a4 == IF GreaterThan(s2.thermalPower, 255 * MW) /\ s2.thermalPower <= SCRAM_POWER
                 /\ s2.phase # SCRAMMED
              THEN <<Alarm(WARNING, "Power approaching limit", s.time)>> ELSE <<>>
        a5 == IF s2.startupRate > 1 * Million /\ s2.phase = SUBCRITICAL
              THEN <<Alarm(WARNING, "High startup rate", s.time)>> ELSE <<>>
    IN  [s |-> s2, alarms |-> a1 \o a2 \o a3 \o a4 \o a5]

\* checkAlarms whose power warning does not look at the phase
checkAlarmsWarnsScrammed(s) ==
    LET shortPeriod == Greater(s.period, 0) /\ Less(s.period, SCRAM_PERIOD)
        s1 == IF shortPeriod THEN scram(s) ELSE s
        a1 == IF shortPeriod THEN <<Alarm(TRIP, "REACTOR TRIP: Short period", s.time)>> ELSE <<>>
        highPower == GreaterThan(s1.thermalPower, SCRAM_POWER)
        s2 == IF highPower THEN scram(s1) ELSE s1
        a2 == IF highPower THEN <<Alarm(TRIP, "REACTOR TRIP: High power", s.time)>> ELSE <<>>
        highTemp == GreaterThan(s2.fuelTemp, SCRAM_TEMP) \/ GreaterThan(s2.coolantTemp, SCRAM_TEMP)
        s3 == IF highTemp THEN scram(s2) ELSE s2
        a3 == IF highTemp THEN <<Alarm(TRIP, "REACTOR TRIP: High temperature", s.time)>> ELSE <<>>
        a4 == IF GreaterThan(s3.thermalPower, 255 * MW) /\ s3.thermalPower <= SCRAM_POWER
              THEN <<Alarm(WARNING, "Power approaching limit", s.time)>> ELSE <<>>
        a5 == IF s3.startupRate > 1 * Million /\ s3.phase = SUBCRITICAL
              THEN <<Alarm(WARNING, "High startup rate", s.time)>> ELSE <<>>
    IN  [s |-> s3, alarms |-> a1 \o a2 \o a3 \o a4 \o a5]

\* checkAlarms whose startup-rate warning does not look at the phase
checkAlarmsStartupAnyPhase(s) ==
    LET shortPeriod == Greater(s.period, 0) /\ Less(s.period, SCRAM_PERIOD)
        s1 == IF shortPeriod THEN scram(s) ELSE s
        a1 == IF shortPeriod THEN <<Alarm(TRIP, "REACTOR TRIP: Short period", s.time)>> ELSE <<>>
        highPower == GreaterThan(s1.thermalPower, SCRAM_POWER)
        s2 == IF highPower THEN scram(s1) ELSE s1
        a2 == IF highPower THEN <<Alarm(TRIP, "REACTOR TRIP: High power", s.time)>> ELSE <<>>
        highTemp == GreaterThan(s2.fuelTemp, SCRAM_TEMP) \/ GreaterThan(s2.coolantTemp, SCRAM_TEMP)
        s3 == IF highTemp THEN scram(s2) ELSE s2
        a3 == IF highTemp THEN <<Alarm(TRIP, "REACTOR TRIP: High temperature", s.time)>> ELSE <<>>
        a4 == IF GreaterThan(s3.thermalPower, 255 * MW) /\ s3.thermalPower <= SCRAM_POWER
                 /\ s3.phase # SCRAMMED
              THEN <<Alarm(WARNING, "Power approaching limit", s.time)>> ELSE <<>>
        a5 == IF s3.startupRate > 1 * Million
              THEN <<Alarm(WARNING, "High startup rate", s.time)>> ELSE <<>>
    IN  [s |-> s3, alarms |-> a1 \o a2 \o a3 \o a4 \o a5]

\* checkAlarms(): the instance after it, and the alarms it returns
checkAlarms(s) ==
    LET shortPeriod == Greater(s.period, 0) /\ Less(s.period, SCRAM_PERIOD)
        s1 == IF shortPeriod THEN scram(s) ELSE s
        a1 == IF shortPeriod THEN <<Alarm(TRIP, "REACTOR TRIP: Short period", s.time)>> ELSE <<>>
        highPower == GreaterThan(s1.thermalPower, SCRAM_POWER)
        s2 == IF highPower THEN scram(s1) ELSE s1
        a2 == IF highPower THEN <<Alarm(TRIP, "REACTOR TRIP: High power", s.time)>> ELSE <<>>
        highTemp == GreaterThan(s2.fuelTemp, SCRAM_TEMP) \/ GreaterThan(s2.coolantTemp, SCRAM_TEMP)
        s3 == IF highTemp THEN scram(s2) ELSE s2
        a3 == IF highTemp THEN <<Alarm(TRIP, "REACTOR TRIP: High temperature", s.time)>> ELSE <<>>
        a4 == IF GreaterThan(s3.thermalPower, 255 * MW) /\ s3.thermalPower <= SCRAM_POWER
                 /\ s3.phase # SCRAMMED
              THEN <<Alarm(WARNING, "Power approaching limit", s.time)>> ELSE <<>>
        a5 == IF s3.startupRate > 1 * Million /\ s3.phase = SUBCRITICAL
              THEN <<Alarm(WARNING, "High startup rate", s.time)>> ELSE <<>>
    IN  [s |-> s3, alarms |-> a1 \o a2 \o a3 \o a4 \o a5]

---------------------------------------------------------------------------
(* SimulationStepper *)

\* the last n elements of a list: Array.prototype.slice(-n)
LastN(list, n) == IF Len(list) <= n THEN list ELSE SubSeq(list, Len(list) - n + 1, Len(list))

\* energy: hi * 1e9 + lo, 0 <= lo < 1e9, or NaN
Energy(hi, lo) == [hi |-> hi + lo \div Billion, lo |-> lo % Billion]
NaNEnergy == [hi |-> NaN, lo |-> 0]
\* the energy of this step alone: "=" for "+="
EnergyAssigned(e, p, dt) ==
    LET x == (p \div 100000) * dt
    IN  IF IsNaN(p) \/ e = NaNEnergy THEN NaNEnergy
        ELSE Energy(x \div 10000, (x % 10000) * 100000 + (p % 100000) * dt)

\* e + p * dt for 0 <= p <= 3e8 W and |dt| <= 50 ms, or p NaN
EnergyAdd(e, p, dt) ==
    LET x == (p \div 100000) * dt
    IN  IF IsNaN(p) \/ e = NaNEnergy THEN NaNEnergy
        ELSE Energy(e.hi + x \div 10000, e.lo + (x % 10000) * 100000 + (p % 100000) * dt)
\* e <= f, false when either is NaN
EnergyLeq(e, f) ==
    /\ e # NaNEnergy
    /\ f # NaNEnergy
    /\ (e.hi < f.hi \/ (e.hi = f.hi /\ e.lo <= f.lo))

RECURSIVE Evict(_, _)
\* while (history.length > 0 && history[0].t < limit) history.shift()
Evict(history, limit) ==
    IF Len(history) > 0 /\ history[1].t < limit THEN Evict(Tail(history), limit) ELSE history

pushHistory(s) ==
    LET entry == [t |-> s.time,
                  power |-> s.thermalPower,
                  neutrons |-> s.neutronDensity,
                  keff |-> s.keff,
                  period |-> s.period,
                  fuelTemp |-> s.fuelTemp,
                  coolantTemp |-> s.coolantTemp,
                  rodPosition |-> s.rodPosition,
                  totalReactivity |-> s.totalReactivity,
                  xenon |-> s.xenonConc,
                  phase |-> s.phase,
                  startupRate |-> s.startupRate]
        historyLimit == 600 * MsPerSecond
    IN  [s EXCEPT !.history = Evict(Append(s.history, entry), s.time - historyLimit)]

\* this.totalEnergyMWh += this.thermalPower * (dt / 3600)
accumulateEnergy(s, dt) ==
    [s EXCEPT !.totalEnergyMWh = EnergyAdd(s.totalEnergyMWh, s.thermalPower, dt)]

\* the end of step(dt) keeping the ten oldest alarms: slice(0, 10) for slice(-10)
recordStepKeepsOldest(chk, dt) ==
    [s |-> pushHistory([chk.s EXCEPT !.alarms = SubSeq(chk.s.alarms \o chk.alarms, 1,
                                                       Min(10, Len(chk.s.alarms \o chk.alarms))),
                                    !.time = chk.s.time + dt]),
     alarms |-> chk.alarms]

\* the end of step(dt), chk being what checkAlarms() left and returned: the
\* alarm list, the clock, the history and the return value
recordStep(chk, dt) ==
    [s |-> pushHistory([chk.s EXCEPT !.alarms = LastN(chk.s.alarms \o chk.alarms, 10),
                                    !.time = chk.s.time + dt]),
     alarms |-> chk.alarms]

\* the engines of step(dt) with the neutronics run before the rods move
updateEnginesRodsLast(s, dt) ==
    updatePhase(
        updateXenonDynamics(
            updateThermalHydraulics(
                updateControlRods(
                    updateNeutronics(s, dt), dt), dt), dt))

\* the engines of step(dt) with the thermal-hydraulics run before the neutronics
updateEnginesThermalFirst(s, dt) ==
    updatePhase(
        updateXenonDynamics(
            updateNeutronics(
                updateThermalHydraulics(
                    updateControlRods(s, dt), dt), dt), dt))

\* the engines of step(dt), in the order it calls them
updateEngines(s, dt) ==
    updatePhase(
        updateXenonDynamics(
            updateThermalHydraulics(
                updateNeutronics(
                    updateControlRods(s, dt), dt), dt), dt))

\* step(dt): the instance after it, and the alarms it returns
step(s, dt0) ==
    LET dt == Min(dt0, 50)
    IN  recordStep(checkAlarms(accumulateEnergy(updateEngines(s, dt), dt)), dt)

\* reset without its pushHistory() call
resetWithoutSnapshot ==
    LET sourceEquilibrium == SOURCE_STRENGTH
        s == [neutronDensity |-> SOURCE_STRENGTH,
              thermalPower |-> 100 * Watt,
              \* sourceEquilibrium * beta_i / lambda_i, in units of beta_i / (lambda_i * Lambda)
              precursors |-> [i \in 1..6 |-> MulDiv(sourceEquilibrium, GENERATION_TIME, Million)],
              fuelTemp |-> MIN_TEMP,
              coolantTemp |-> MIN_TEMP,
              xenonConc |-> 0,
              iodineConc |-> 0,
              rodPosition |-> 95 * PerCent,
              targetRodPosition |-> 95 * PerCent,
              rodReactivity |-> calculateRodWorth(95 * PerCent),
              tempReactivity |-> 0,
              xenonReactivity |-> 0,
              totalReactivity |-> calculateRodWorth(95 * PerCent),
              phase |-> SHUTDOWN,
              keff |-> 950000,
              period |-> Infinity,
              doublingTime |-> Infinity,
              startupRate |-> 0,
              time |-> 0,
              totalEnergyMWh |-> Energy(0, 0),
              sessionStartTime |-> 0,
              history |-> <<>>,
              alarms |-> <<>>]
    IN  s

reset ==
    LET sourceEquilibrium == SOURCE_STRENGTH
        s == [neutronDensity |-> SOURCE_STRENGTH,
              thermalPower |-> 100 * Watt,
              \* sourceEquilibrium * beta_i / lambda_i, in units of beta_i / (lambda_i * Lambda)
              precursors |-> [i \in 1..6 |-> MulDiv(sourceEquilibrium, GENERATION_TIME, Million)],
              fuelTemp |-> MIN_TEMP,
              coolantTemp |-> MIN_TEMP,
              xenonConc |-> 0,
              iodineConc |-> 0,
              rodPosition |-> 95 * PerCent,
              targetRodPosition |-> 95 * PerCent,
              rodReactivity |-> calculateRodWorth(95 * PerCent),
              tempReactivity |-> 0,
              xenonReactivity |-> 0,
              totalReactivity |-> calculateRodWorth(95 * PerCent),
              phase |-> SHUTDOWN,
              keff |-> 950000,
              period |-> Infinity,
              doublingTime |-> Infinity,
              startupRate |-> 0,
              time |-> 0,
              totalEnergyMWh |-> Energy(0, 0),
              sessionStartTime |-> 0,
              history |-> <<>>,
              alarms |-> <<>>]
    IN  pushHistory(s)

---------------------------------------------------------------------------
(* The simulator in use: calls on one instance *)

\* number of calls followed from construction
MaxCalls == 4

\* dt of a step call, ms: negative, zero, below, at and above the 0.05 s clamp,
\* and 50 minutes back
StepInputs == {-3000 * MsPerSecond, -20, 0, 10, 50, 80}
\* targets of moveRods: inside and outside [0, 100]
MoveInputs == {0, 33 * PerCent, 150 * PerCent, -10 * PerCent}
\* amounts of insertRods and withdrawRods
RodAmounts == {10 * PerCent}

\* the fields of the instance, with the history reduced to its length
Fields(s) == [s EXCEPT !.history = Len(s.history)]

\* constructor(): this.reset()
Init ==
    /\ reactor = reset
    /\ returned = <<>>
    /\ call = [op |-> "constructor", arg |-> 0]
    /\ before = Fields(reset)
    /\ calls = 0
    /\ tripCount = 0

Called(op, arg) ==
    /\ call' = [op |-> op, arg |-> arg]
    /\ before' = Fields(reactor)
    /\ calls' = calls + 1
    /\ UNCHANGED tripCount

Step(dt) ==
    /\ calls < MaxCalls
    /\ \E out \in {step(reactor, dt)} :
          /\ reactor' = out.s
          /\ returned' = out.alarms
    /\ Called("step", dt)

MoveRods(targetPosition) ==
    /\ calls < MaxCalls
    /\ reactor' = moveRods(reactor, targetPosition)
    /\ returned' = <<>>
    /\ Called("moveRods", targetPosition)

InsertRods(percent) ==
    /\ calls < MaxCalls
    /\ reactor' = insertRods(reactor, percent)
    /\ returned' = <<>>
    /\ Called("insertRods", percent)

WithdrawRods(percent) ==
    /\ calls < MaxCalls
    /\ reactor' = withdrawRods(reactor, percent)
    /\ returned' = <<>>
    /\ Called("withdrawRods", percent)

Scram ==
    /\ calls < MaxCalls
    /\ reactor' = scram(reactor)
    /\ returned' = <<>>
    /\ Called("scram", 0)

Reset ==
    /\ calls < MaxCalls
    /\ reactor' = reset
    /\ returned' = <<>>
    /\ Called("reset", 0)

Next ==
    \/ \E dt \in StepInputs : Step(dt)
    \/ \E targetPosition \in MoveInputs : MoveRods(targetPosition)
    \/ \E percent \in RodAmounts : InsertRods(percent)
    \/ \E percent \in RodAmounts : WithdrawRods(percent)
    \/ Scram
    \/ Reset

Spec == Init /\ [][Next]_vars

---------------------------------------------------------------------------
(* A session: the run loop steps the simulator frame after frame while the  *)
(* operator follows a procedure of rod commands                             *)

\* dt = Math.min(0.05, deltaTime * speed), at a speed where the clamp decides
FrameDt == 50
\* simulated time the session is followed for, ms
RunEnd == 800000

\* the operator's procedure: the rod target commanded at each time
Procedure ==
    << [at |-> 0,      target |-> 33 * PerCent],
       [at |-> 450000, target |-> 50 * PerCent],
       [at |-> 530000, target |-> 33 * PerCent] >>

\* animate: the TRIP alarms the loop counts after a step, beforeAlarms being
\* reactor.alarms.length before the step and alarms the list after it
countedTrips(beforeAlarms, alarms) ==
    LET afterAlarms == Len(alarms)
        newAlarms == SubSeq(alarms, beforeAlarms + 1, afterAlarms)
    IN  IF afterAlarms > beforeAlarms
        THEN Cardinality({i \in 1..Len(newAlarms) : newAlarms[i].level = TRIP})
        ELSE 0

Tripped(alarms) == \E i \in 1..Len(alarms) : alarms[i].level = TRIP

\* A run of the loop is [s, alarms, before, frames, until, counted]: the
\* instance, what its last step returned, its fields before that step, the
\* number of frames run, the time the run is followed to, and the trips the
\* loop counted.  It is followed up to the first frame that trips.
Running(s, until) ==
    [s |-> s, alarms |-> <<>>, before |-> Fields(s), frames |-> 0, until |-> until,
     counted |-> 0]
Stopped(r) == Tripped(r.alarms) \/ r.s.time >= r.until

\* one frame: reactor.step(dt)
Frame(r) ==
    IF Stopped(r) THEN r
    ELSE Bind(step(r.s, FrameDt),
              LAMBDA out : [r EXCEPT !.s = out.s, !.alarms = out.alarms,
                                     !.before = Fields(r.s), !.frames = r.frames + 1,
                                     !.counted = r.counted
                                         + countedTrips(Len(r.s.alarms), out.s.alarms)])

RECURSIVE Frames(_, _)
\* n frames one after the other, or as many as run before the run stops
Frames(r, n) ==
    IF n = 0 \/ Stopped(r) THEN r
    ELSE IF n = 1 THEN Frame(r)
    ELSE Bind(Frames(r, n \div 2), LAMBDA half : Frames(half, n - n \div 2))

\* commands of the procedure issued so far: every call but the frames' steps
Issued == calls - reactor.time \div FrameDt
CommandDue == Issued < Len(Procedure) /\ Procedure[Issued + 1].at = reactor.time
\* the time of the next command, or the end of the session
Horizon == IF Issued < Len(Procedure) THEN Procedure[Issued + 1].at ELSE RunEnd

\* the run loop runs until the next command is due, or a frame trips
Run ==
    /\ ~CommandDue
    /\ reactor.time < Horizon
    /\ \E r \in {Frames(Running(reactor, Horizon), (Horizon - reactor.time) \div FrameDt)} :
          /\ reactor' = r.s
          /\ returned' = r.alarms
          /\ call' = [op |-> "step", arg |-> FrameDt]
          /\ before' = r.before
          /\ calls' = calls + r.frames
          /\ tripCount' = tripCount + r.counted

\* the operator issues the command that is due
Command ==
    /\ CommandDue
    /\ reactor' = moveRods(reactor, Procedure[Issued + 1].target)
    /\ returned' = <<>>
    /\ Called("moveRods", Procedure[Issued + 1].target)

NextRun == Run \/ Command

SpecRun == Init /\ [][NextRun]_vars


---------------------------------------------------------------------------
(* The App: animation frames at the speed chosen, and the SCRAM and RESET   *)
(* buttons                                                                  *)

\* number of frames and button presses followed
MaxFrames == 3

\* deltaTime, the wall-clock time since the previous frame, ms: displays of
\* 240, 60 and 30 frames per second
FrameTimes == {4, 16, 33}
\* the speed buttons
Speeds == {1, 2, 5, 10}

\* const dt = Math.min(0.05, deltaTime * speed), ms
frameDt(deltaTime, speed) == Min(50, deltaTime * speed)

\* animate(currentTime), deltaTime after the previous frame at the speed set
Animate(deltaTime, speed) ==
    /\ calls < MaxFrames
    /\ \E out \in {step(reactor, frameDt(deltaTime, speed))} :
          /\ reactor' = out.s
          /\ returned' = out.alarms
          /\ tripCount' = tripCount + countedTrips(Len(reactor.alarms), out.s.alarms)
    /\ call' = [op |-> "animate", arg |-> [deltaTime |-> deltaTime, speed |-> speed]]
    /\ before' = Fields(reactor)
    /\ calls' = calls + 1

HandleScram ==
    /\ calls < MaxFrames
    /\ reactor' = scram(reactor)
    /\ returned' = <<>>
    /\ call' = [op |-> "handleScram", arg |-> 0]
    /\ before' = Fields(reactor)
    /\ calls' = calls + 1
    /\ UNCHANGED tripCount

HandleReset ==
    /\ calls < MaxFrames
    /\ reactor' = reset
    /\ returned' = <<>>
    /\ tripCount' = 0
    /\ call' = [op |-> "handleReset", arg |-> 0]
    /\ before' = Fields(reactor)
    /\ calls' = calls + 1

NextApp ==
    \/ \E deltaTime \in FrameTimes, speed \in Speeds : Animate(deltaTime, speed)
    \/ HandleScram
    \/ HandleReset

SpecApp == Init /\ [][NextApp]_vars

---------------------------------------------------------------------------
(* A startup: the rods are commanded all the way out from the reset state   *)
(* and step(0.05) is called over and over                                   *)

\* simulated time the startup is followed for, ms
StartupEnd == 120000
\* steps between two observations of the instance
StartupBurst == 20

\* reactor.moveRods(0), the first call
Withdraw ==
    /\ calls = 0
    /\ reactor' = moveRods(reactor, 0)
    /\ returned' = <<>>
    /\ Called("moveRods", 0)

\* reactor.step(0.05), StartupBurst times or until a step trips
StartupSteps ==
    /\ calls > 0
    /\ reactor.time < StartupEnd
    /\ \E r \in {Frames(Running(reactor, StartupEnd), StartupBurst)} :
          /\ reactor' = r.s
          /\ returned' = r.alarms
          /\ call' = [op |-> "step", arg |-> FrameDt]
          /\ before' = r.before
          /\ calls' = calls + r.frames
    /\ UNCHANGED tripCount

NextStartup == Withdraw \/ StartupSteps

SpecStartup == Init /\ [][NextStartup]_vars

---------------------------------------------------------------------------
(* A shutdown: the operator scrams the reactor during the startup, and      *)
(* step(0.05) goes on being called                                          *)

\* simulated time at which scram() is called, ms
ScramTime == 30000
\* simulated time the shutdown is followed for, ms
ShutdownEnd == 120000

\* reactor.step(0.05), StartupBurst times: up to the scram, and after it
ShutdownSteps ==
    /\ calls > 0
    /\ reactor.phase = SCRAMMED \/ reactor.time < ScramTime
    /\ reactor.time < ShutdownEnd
    /\ \E r \in {Frames(Running(reactor, IF reactor.phase = SCRAMMED
                                         THEN ShutdownEnd ELSE ScramTime),
                        StartupBurst)} :
          /\ reactor' = r.s
          /\ returned' = r.alarms
          /\ call' = [op |-> "step", arg |-> FrameDt]
          /\ before' = r.before
          /\ calls' = calls + r.frames
    /\ UNCHANGED tripCount

\* reactor.scram()
PressScram ==
    /\ reactor.time >= ScramTime
    /\ reactor.phase # SCRAMMED
    /\ reactor' = scram(reactor)
    /\ returned' = <<>>
    /\ Called("scram", 0)

NextShutdown == Withdraw \/ ShutdownSteps \/ PressScram

\* a call of the shutdown is due
CallDue ==
    \/ calls = 0
    \/ reactor.time < ShutdownEnd /\ (reactor.phase = SCRAMMED \/ reactor.time < ScramTime)
    \/ reactor.time >= ScramTime /\ reactor.phase # SCRAMMED
\* a call that is due is made, or StartupBurst of them at most
CallsMade == CallDue /\ calls' \in {calls + n : n \in 1..StartupBurst}

\* the caller goes on calling: a call that is due is eventually made
SpecShutdown == Init /\ [][NextShutdown]_vars /\ WF_calls(CallsMade)

---------------------------------------------------------------------------
(* A startup carried on too far: the rods go on coming out after the        *)
(* reactor is critical, and step(0.05) is called over and over              *)

\* simulated time the withdrawal is followed for, ms
TripEnd == 140000

\* reactor.step(0.05), StartupBurst times or until a step trips
TripSteps ==
    /\ calls > 0
    /\ reactor.time < TripEnd
    /\ \E r \in {Frames(Running(reactor, TripEnd), StartupBurst)} :
          /\ reactor' = r.s
          /\ returned' = r.alarms
          /\ call' = [op |-> "step", arg |-> FrameDt]
          /\ before' = r.before
          /\ calls' = calls + r.frames
    /\ UNCHANGED tripCount

NextTrip == Withdraw \/ TripSteps

SpecTrip == Init /\ [][NextTrip]_vars

\* reactor.scram(), which the operator may call ScramTime into the withdrawal
ScramOnTime ==
    /\ reactor.time = ScramTime
    /\ reactor.phase # SCRAMMED
    /\ reactor' = scram(reactor)
    /\ returned' = <<>>
    /\ Called("scram", 0)

NextProtection == Withdraw \/ TripSteps \/ ScramOnTime

\* the withdrawal, ended by the operator's scram or by the trip of a step
SpecProtection == Init /\ [][NextProtection]_vars

---------------------------------------------------------------------------
(* calculateRodWorth over the rod positions                                 *)

\* distance between the positions the worth is computed at, 1e-4 %: the
\* travel of the rods in one frame
PositionStep == 250
Positions == {i * PositionStep : i \in 0..((100 * PerCent) \div PositionStep)}

\* a position is chosen on a new instance
InitWorth ==
    /\ reactor = reset
    /\ returned = <<>>
    /\ \E position \in Positions : call = [op |-> "calculateRodWorth", arg |-> position]
    /\ before = Fields(reset)
    /\ calls = 0
    /\ tripCount = 0

\* reactor.calculateRodWorth(position): the worth is returned, the instance
\* is not touched
CalculateRodWorth ==
    /\ calls = 0
    /\ returned' = <<calculateRodWorth(call.arg)>>
    /\ calls' = calls + 1
    /\ UNCHANGED <<reactor, call, before, tripCount>>

SpecWorth == InitWorth /\ [][CalculateRodWorth]_vars
---------------------------------------------------------------------------
(* Properties *)

\* the last call was op, made on the instance `before`
Did(op) == call.op = op
\* the number of TRIP alarms in a list
Trips(alarms) == Cardinality({i \in 1..Len(alarms) : alarms[i].level = TRIP})

\* C1: once the phase is SCRAMMED it stays SCRAMMED across step, moveRods,
\* insertRods, withdrawRods and scram; only reset() assigns another phase.
C1_ScrammedSticky ==
    [][(reactor.phase = SCRAMMED /\ call'.op # "reset") => reactor'.phase = SCRAMMED]_vars

\* a step was taken from a SCRAMMED state whose keff classifies as another phase
C1_Witness ==
    /\ Did("step")
    /\ before.phase = SCRAMMED
    /\ reactor.phase = SCRAMMED
    /\ reactor.keff < 950000

\* C2: in every reachable state, after any step(dt) for any dt and any rod or
\* scram command, the clamped quantities are in their bounds: neutronDensity
\* in [SOURCE_STRENGTH, 1], precursors >= 0, iodineConc and xenonConc in
\* [0, 1], rodPosition and targetRodPosition in [0, 100], keff in
\* [0.85, 1.15], thermalPower in [0, 300], fuelTemp in [550, 800], coolantTemp
\* in [550, 750].
C2_ClampedInBounds ==
    /\ ~IsNaN(reactor.neutronDensity)
    /\ SOURCE_STRENGTH <= reactor.neutronDensity /\ reactor.neutronDensity <= Billion
    /\ \A i \in 1..6 : ~IsNaN(reactor.precursors[i]) /\ reactor.precursors[i] >= 0
    /\ ~IsNaN(reactor.iodineConc)
    /\ 0 <= reactor.iodineConc /\ reactor.iodineConc <= Billion
    /\ ~IsNaN(reactor.xenonConc)
    /\ 0 <= reactor.xenonConc /\ reactor.xenonConc <= Billion
    /\ 0 <= reactor.rodPosition /\ reactor.rodPosition <= 100 * PerCent
    /\ 0 <= reactor.targetRodPosition /\ reactor.targetRodPosition <= 100 * PerCent
    /\ ~IsNaN(reactor.keff)
    /\ 850000 <= reactor.keff /\ reactor.keff <= 1150000
    /\ ~IsNaN(reactor.thermalPower)
    /\ 0 <= reactor.thermalPower /\ reactor.thermalPower <= 300 * MW
    /\ ~IsNaN(reactor.fuelTemp)
    /\ 550 * DegC <= reactor.fuelTemp /\ reactor.fuelTemp <= 800 * DegC
    /\ ~IsNaN(reactor.coolantTemp)
    /\ 550 * DegC <= reactor.coolantTemp /\ reactor.coolantTemp <= 750 * DegC

\* what step(0) is claimed to leave alone: everything but the history
Others(s) == [s EXCEPT !.history = <<>>]

\* C3 as claimed: step(0) from any reachable state advances time by 0,
\* returns no alarms and leaves every other field unchanged, the history
\* growing by no more than one entry.
C3_StepZeroChangesNothing ==
    [][(call'.op = "step" /\ call'.arg = 0) =>
          /\ returned' = <<>>
          /\ Others(reactor') = Others(reactor)
          /\ Len(reactor'.history) <= Len(reactor.history) + 1]_vars

\* C3 as amended: step(0) advances time by 0, appends exactly one snapshot and
\* leaves thermalPower, fuelTemp, coolantTemp, iodineConc, xenonConc and
\* totalEnergyMWh unchanged; rodPosition and targetRodPosition are unchanged
\* unless it returns a TRIP alarm; neutronDensity and the precursors are
\* unchanged when the temperatures and xenonConc are numbers.  (The
\* reactivities, keff, period, doublingTime, startupRate and phase are
\* recomputed and alarms are evaluated: they can change, and alarms can be
\* returned.)
C3_StepZero ==
    [][(call'.op = "step" /\ call'.arg = 0) =>
          /\ reactor'.time = reactor.time
          /\ reactor'.thermalPower = reactor.thermalPower
          /\ reactor'.fuelTemp = reactor.fuelTemp
          /\ reactor'.coolantTemp = reactor.coolantTemp
          /\ reactor'.iodineConc = reactor.iodineConc
          /\ reactor'.xenonConc = reactor.xenonConc
          /\ reactor'.totalEnergyMWh = reactor.totalEnergyMWh
          /\ (Trips(returned') = 0 =>
                /\ reactor'.rodPosition = reactor.rodPosition
                /\ reactor'.targetRodPosition = reactor.targetRodPosition)
          /\ (~IsNaN(reactor.fuelTemp) /\ ~IsNaN(reactor.coolantTemp) /\ ~IsNaN(reactor.xenonConc) =>
                /\ reactor'.neutronDensity = reactor.neutronDensity
                /\ reactor'.precursors = reactor.precursors)
          /\ Len(reactor'.history) = Len(reactor.history) + 1
          /\ reactor'.history[Len(reactor'.history)].t = reactor.time]_vars

\* step(0) was called with the rods under way, and it changed keff and the phase
C3_Witness ==
    /\ Did("step")
    /\ call.arg = 0
    /\ reactor.keff # before.keff
    /\ reactor.phase # before.phase
    /\ reactor.rodPosition # reactor.targetRodPosition
    /\ reactor.history[Len(reactor.history)].t = reactor.time

\* C4: scram() called twice in succession yields the state of calling it once:
\* the second call changes no field.
C4_ScramIdempotent ==
    [][(call.op = "scram" /\ call'.op = "scram") => reactor' = reactor]_vars

\* scram() was called twice in succession on a new simulator
C4_Witness ==
    /\ Did("scram")
    /\ calls = 2
    /\ before.phase = SCRAMMED
    /\ reactor.phase = SCRAMMED
    /\ reactor.rodPosition = before.rodPosition

\* C5: from a state whose phase is not SCRAMMED, scram() sets phase to
\* SCRAMMED, targetRodPosition to 100 and rodPosition to
\* min(100, rodPosition + 5), and changes no other field.
C5_ScramEffect ==
    [][(call'.op = "scram" /\ reactor.phase # SCRAMMED) =>
          /\ reactor'.phase = SCRAMMED
          /\ reactor'.targetRodPosition = 100 * PerCent
          /\ reactor'.rodPosition = Min(100 * PerCent, reactor.rodPosition + 5 * PerCent)
          /\ [reactor' EXCEPT !.phase = 0, !.targetRodPosition = 0, !.rodPosition = 0]
                = [reactor EXCEPT !.phase = 0, !.targetRodPosition = 0, !.rodPosition = 0]]_vars

\* scram() was called on a running reactor whose rods were on their way out:
\* the kick moved them by 5 %
C5_Witness ==
    /\ Did("scram")
    /\ before.phase \notin {SCRAMMED, SHUTDOWN}
    /\ before.rodPosition < 95 * PerCent
    /\ before.time > 0
    /\ reactor.rodPosition = before.rodPosition + 5 * PerCent
    /\ reactor.targetRodPosition = 100 * PerCent

\* the documented initial state
InitialState(s) ==
    /\ s.rodPosition = 95 * PerCent
    /\ s.targetRodPosition = 95 * PerCent
    /\ s.phase = SHUTDOWN
    /\ s.keff = 950000
    /\ s.period = Infinity
    /\ s.startupRate = 0
    /\ s.fuelTemp = 550 * DegC
    /\ s.coolantTemp = 550 * DegC
    /\ s.iodineConc = 0
    /\ s.xenonConc = 0
    /\ s.neutronDensity = SOURCE_STRENGTH
    /\ s.time = 0
    /\ s.totalEnergyMWh = Energy(0, 0)
    /\ s.alarms = <<>>
    /\ Len(s.history) = 1
    /\ s.history[1].t = 0

\* C6: reset() in any reachable state yields the documented initial state,
\* identical to a freshly constructed simulator.
C6_ResetInitialState ==
    (Did("reset") \/ Did("constructor")) => InitialState(reactor)

\* reset() was called on a scrammed reactor with alarms raised, a history of
\* several snapshots and fields that are not numbers
C6_Witness ==
    /\ Did("reset")
    /\ before.phase = SCRAMMED
    /\ before.alarms # <<>>
    /\ before.history > 2
    /\ before.time # 0
    /\ IsNaN(before.thermalPower)

\* a trip condition other than the temperature holds at the alarm evaluation
OtherTrip(s) ==
    \/ Greater(s.period, 0) /\ Less(s.period, SCRAM_PERIOD)
    \/ GreaterThan(s.thermalPower, SCRAM_POWER)

\* C7: a step taken from a non-SCRAMMED state in which fuelTemp is above 750
\* at alarm evaluation, and no other trip condition holds, returns exactly one
\* TRIP alarm and ends with phase = SCRAMMED and targetRodPosition = 100.
C7_HighTemperatureTrip ==
    (/\ Did("step")
     /\ before.phase # SCRAMMED
     /\ GreaterThan(reactor.fuelTemp, 750 * DegC)
     /\ ~OtherTrip(reactor))
    => /\ Trips(returned) = 1
       /\ reactor.phase = SCRAMMED
       /\ reactor.targetRodPosition = 100 * PerCent

\* a frame at power took fuelTemp from below 750 to above it: the step
\* returned the high-temperature trip and scrammed the reactor
C7_Witness ==
    /\ Did("step")
    /\ before.phase \in {AT_POWER, POWER_ASCENSION}
    /\ before.fuelTemp <= 750 * DegC
    /\ reactor.fuelTemp > 750 * DegC
    /\ ~OtherTrip(reactor)
    /\ Len(returned) = 1
    /\ returned[1].level = TRIP
    /\ returned[1].message = "REACTOR TRIP: High temperature"
    /\ reactor.phase = SCRAMMED
    /\ reactor.rodPosition = before.rodPosition + 5 * PerCent
    /\ Len(reactor.alarms) > 0

\* thermalPower * dt, in millions and units, against the growth of the energy
\* from e to f
EnergyGrewBy(e, f, p, dt) ==
    LET hiP == (p \div Million) * dt
        loP == (p % Million) * dt
        dhi == f.hi - e.hi
        dlo == f.lo - e.lo
    IN  /\ hiP + loP \div Million = dhi * 1000 + dlo \div Million
        /\ loP % Million = dlo % Million

\* C8: totalEnergyMWh never decreases across step calls with dt >= 0,
\* interleaved with rod and scram commands; each step adds exactly
\* thermalPower (after this step's neutronics update) x min(dt, 0.05) / 3600,
\* also while SCRAMMED.  (The energy is NaN only after a step with a dt below
\* -2129 s.)
C8_EnergyAccumulates ==
    [][(call'.op = "step" /\ call'.arg >= 0 /\ reactor.totalEnergyMWh # NaNEnergy) =>
          /\ EnergyLeq(reactor.totalEnergyMWh, reactor'.totalEnergyMWh)
          /\ EnergyGrewBy(reactor.totalEnergyMWh, reactor'.totalEnergyMWh,
                          reactor'.thermalPower, Min(call'.arg, 50))]_vars

\* a scrammed reactor that had produced energy was stepped with a dt above the
\* clamp, and its energy grew
C8_Witness ==
    /\ Did("step")
    /\ call.arg > 50
    /\ before.phase = SCRAMMED
    /\ before.totalEnergyMWh # Energy(0, 0)
    /\ before.totalEnergyMWh # NaNEnergy
    /\ reactor.totalEnergyMWh # before.totalEnergyMWh
    /\ EnergyLeq(before.totalEnergyMWh, reactor.totalEnergyMWh)

\* C9: across step(dt) calls time never decreases, and a call advances time by
\* exactly dt when dt <= 0.05 and by exactly 0.05 when dt > 0.05.
C9_TimeAdvance ==
    [][call'.op = "step" =>
          /\ reactor'.time >= reactor.time
          /\ reactor'.time - reactor.time = (IF call'.arg <= 50 THEN call'.arg ELSE 50)]_vars

\* the history is non-empty, ordered by t, and holds nothing older than 600 s
HistoryInOrder(s) ==
    /\ Len(s.history) > 0
    /\ \A i \in 1..(Len(s.history) - 1) : s.history[i].t <= s.history[i + 1].t
    /\ \A i \in 1..Len(s.history) : s.history[i].t >= s.time - 600 * MsPerSecond

\* history h became h2 by appending one snapshot stamped `time` and removing,
\* from the front, only snapshots older than 600 s
HistoryStep(h, h2, time) ==
    LET removed == Len(h) + 1 - Len(h2)
    IN  /\ removed >= 0
        /\ Len(h2) > 0
        /\ h2[Len(h2)].t = time
        /\ h2 = SubSeq(Append(h, h2[Len(h2)]), removed + 1, Len(h) + 1)
        /\ \A i \in 1..removed : h[i].t < time - 600 * MsPerSecond

\* C10: in every reachable state the history is non-empty, ordered by
\* non-decreasing t, and every snapshot has t >= time - 600; each step appends
\* exactly one snapshot, stamped with the time after the advance, and removes
\* only snapshots older than 600 s, from the front.
C10_History ==
    /\ []HistoryInOrder(reactor)
    /\ [][call'.op = "step" =>
            HistoryStep(reactor.history, reactor'.history, reactor'.time)]_vars

\* the instance as step(dt) hands it to checkAlarms(), from the fields before
\* the step
BeforeAlarms(s, dt) == accumulateEnergy(updateEngines(s, Min(dt, 50)), Min(dt, 50))

\* C11: step returns exactly the alarms raised in that step, and the alarm
\* list is the last ten of the list before the step followed by the returned
\* alarms, so it is never longer than ten and the oldest are evicted first;
\* no other call but reset touches the list.
C11_AlarmList ==
    /\ [](Did("step") => /\ returned = checkAlarms(BeforeAlarms(before, call.arg)).alarms
                         /\ \A i \in 1..Len(returned) : returned[i].time = before.time
                         /\ reactor.alarms = LastN(before.alarms \o returned, 10))
    /\ [](Len(reactor.alarms) <= 10)
    /\ [][call'.op \notin {"step", "reset"} => reactor'.alarms = reactor.alarms]_vars
    /\ [][call'.op = "reset" => reactor'.alarms = <<>>]_vars

\* a step raised an alarm when the list held ten: the oldest was evicted
C11_Witness ==
    /\ Did("step")
    /\ Len(before.alarms) = 10
    /\ Len(returned) = 1
    /\ reactor.alarms = Tail(before.alarms) \o returned
    /\ reactor.alarms # before.alarms

\* C12: moveRods(p) sets targetRodPosition to p clamped into [0, 100],
\* insertRods(d) and withdrawRods(d) set it to the clamped target + d and
\* target - d, and none of the three changes any other field, in any phase.
C12_RodCommands ==
    [][/\ call'.op = "moveRods" =>
            reactor' = [reactor EXCEPT !.targetRodPosition =
                            Max(0, Min(100 * PerCent, call'.arg))]
       /\ call'.op = "insertRods" =>
            reactor' = [reactor EXCEPT !.targetRodPosition =
                            Max(0, Min(100 * PerCent, reactor.targetRodPosition + call'.arg))]
       /\ call'.op = "withdrawRods" =>
            reactor' = [reactor EXCEPT !.targetRodPosition =
                            Max(0, Min(100 * PerCent, reactor.targetRodPosition - call'.arg))]]_vars

\* rods were inserted past 100 % while SCRAMMED: the target is held at 100
\* and no other field changed
C12_Witness ==
    /\ Did("insertRods")
    /\ before.phase = SCRAMMED
    /\ before.targetRodPosition + call.arg > 100 * PerCent
    /\ reactor.targetRodPosition = 100 * PerCent
    /\ Others(reactor) = Others(before)

\* C13: from the reset state, with the rod target commanded to 0 and
\* step(0.05) called for 120 simulated seconds (2400 steps), thermalPower is
\* at no step below its reset value (the history holds the power after every
\* step), and keff is above 0.999 at the end.
C13_Startup ==
    /\ \A i \in 1..Len(reactor.history) :
          GreaterThan(reactor.history[i].power, reset.thermalPower - 1)
    /\ GreaterThan(reactor.thermalPower, reset.thermalPower - 1)
    /\ calls >= 2400 + 1 => GreaterThan(reactor.keff, 999000)

\* the 2400th step: 120 s have passed, the rods are at 35 %, every step is
\* in the history and the power has risen
C13_Witness ==
    /\ Did("step")
    /\ calls = 2400 + 1
    /\ reactor.time = 120 * MsPerSecond
    /\ Len(reactor.history) = 2400 + 1
    /\ reactor.targetRodPosition = 0
    /\ reactor.rodPosition = 35 * PerCent
    /\ reactor.keff > 999000
    /\ reactor.thermalPower > reset.thermalPower

\* the worth was computed at position
Worth(position) == Did("calculateRodWorth") /\ calls = 1 /\ call.arg = position

\* C14: calculateRodWorth is continuous at position 35, where both branches
\* give 0 pcm, is +3000 pcm at position 0 and is non-increasing over 0..100:
\* the worth at a position is not below the worth one unit and one step
\* further in.
C14_RodWorth ==
    /\ Worth(0) => returned[1] = 3000 * Pcm
    /\ Worth(35 * PerCent) =>
          /\ returned[1] = 0
          /\ withdrawnWorth(call.arg) = 0
          /\ insertedWorth(call.arg) = 0
          /\ calculateRodWorth(call.arg - 1) \in 0..1
          /\ calculateRodWorth(call.arg + 1) \in -1..0
    /\ \A position \in Positions :
          Worth(position) =>
             \A further \in {position + 1, position + PositionStep} :
                further <= 100 * PerCent => returned[1] >= calculateRodWorth(further)

\* the worth was computed at the critical point: it is 0 there, positive one
\* step further out and negative one step further in
C14_Witness ==
    /\ Worth(35 * PerCent)
    /\ returned = <<0>>
    /\ calculateRodWorth(call.arg - PositionStep) > 0
    /\ calculateRodWorth(call.arg + PositionStep) < 0

\* C15: in the run loop tripCount is incremented exactly once for every
\* TRIP alarm a step raises and never for a WARNING, whatever number of
\* alarms the list already holds.  (A run of frames ends with the first
\* frame that raises a TRIP, so the trips it raised are those its last step
\* returned.)
C15_TripCount ==
    [][call'.op = "step" => tripCount' = tripCount + Trips(returned')]_vars

\* C16: while running at speed s in {1, 2, 5, 10}, each animation frame
\* advances simulated time by s times the wall-clock time elapsed since the
\* previous frame (so that 100 simulated minutes take about 10 real minutes
\* at 10x).
C16_SpeedMultiplier ==
    [][call'.op = "animate" =>
          reactor'.time = reactor.time + call'.arg.speed * call'.arg.deltaTime]_vars

\* the phase the claim assigns to (keff, thermalPower): keff in 1e-6, power
\* in W
Classification(keff, thermalPower) ==
    IF LessThan(keff, 950000) THEN SHUTDOWN
    ELSE IF LessThan(keff, 999000) THEN SUBCRITICAL
    ELSE IF LessThan(thermalPower, 1 * MW) THEN CRITICAL
    ELSE IF LessThan(thermalPower, 225 * MW) THEN POWER_ASCENSION
    ELSE AT_POWER

\* C17 as claimed: in every state observable between calls in which the
\* phase is not SCRAMMED, the state right after reset included, the phase is
\* the classification of the current keff and thermalPower.
C17_PhaseClassified ==
    reactor.phase # SCRAMMED =>
        reactor.phase = Classification(reactor.keff, reactor.thermalPower)

\* a step has been made since the last reset: reset() leaves one snapshot in
\* the history and every step adds one
Stepped(s) == Len(s.history) > 1

\* C17 as amended: in every state observable after a step made since the
\* last reset in which the phase is not SCRAMMED, the phase is the
\* classification of the current keff and thermalPower; until the first step
\* after reset the phase is SHUTDOWN with keff = 0.95.
C17_PhaseClassifiedAfterStep ==
    /\ (Stepped(reactor) /\ reactor.phase # SCRAMMED) =>
          reactor.phase = Classification(reactor.keff, reactor.thermalPower)
    /\ ~Stepped(reactor) /\ reactor.phase # SCRAMMED =>
          reactor.phase = SHUTDOWN /\ reactor.keff = 950000

\* a step took the reactor from SUBCRITICAL to POWER_ASCENSION: keff has
\* passed 0.999 with the power above 1 MW
C17_Witness ==
    /\ Did("step")
    /\ Stepped(reactor)
    /\ reactor.phase = POWER_ASCENSION
    /\ reactor.keff >= 999000
    /\ reactor.thermalPower >= 1 * MW
    /\ \E i \in 1..Len(reactor.history) : reactor.history[i].phase = SUBCRITICAL

\* C18: while the phase is SCRAMMED, rodPosition never decreases from one
\* observable state to the next, until reset, for any interleaving of
\* step(dt >= 0), moveRods, insertRods, withdrawRods and scram calls.  (The
\* history is in order of time when no step had a negative dt.)
C18_RodsOnlyInward ==
    [][(/\ reactor.phase = SCRAMMED
        /\ call'.op # "reset"
        /\ call'.op = "step" => call'.arg >= 0
        /\ HistoryInOrder(reactor'))
       => reactor'.rodPosition >= reactor.rodPosition]_vars

\* C19: after the phase becomes SCRAMMED, with step called repeatedly at a
\* fixed dt > 0 and no rod command issued, rodPosition eventually equals 100
\* and from then on stays 100.
C19_FullInsertion ==
    (reactor.phase = SCRAMMED) ~> [](reactor.rodPosition = 100 * PerCent)

\* a step of a SCRAMMED reactor left the rods at 100 %, which they had
\* reached from less in the steps since the scram
C19_Witness ==
    /\ Did("step")
    /\ reactor.phase = SCRAMMED
    /\ before.rodPosition = 100 * PerCent
    /\ reactor.rodPosition = 100 * PerCent
    /\ \E i \in 1..Len(reactor.history) :
          /\ reactor.history[i].phase = SCRAMMED
          /\ reactor.history[i].rodPosition < 100 * PerCent

\* C20: a step that detects a trip condition while the phase is already
\* SCRAMMED leaves every field as the engines of that step made it, except
\* the alarm list (and the time and history every step records): the phase
\* stays SCRAMMED, targetRodPosition is what it was, and rodPosition moved
\* only by the actuator, with no second 5 % insertion.
C20_RedundantTrip ==
    (Did("step") /\ before.phase = SCRAMMED /\ Tripped(returned))
    => /\ Fields(reactor) = [BeforeAlarms(before, call.arg)
                                EXCEPT !.alarms = reactor.alarms,
                                       !.time = reactor.time,
                                       !.history = Len(reactor.history)]
       /\ reactor.alarms = LastN(before.alarms \o returned, 10)
       /\ reactor.phase = SCRAMMED
       /\ reactor.targetRodPosition = before.targetRodPosition
       /\ reactor.rodPosition = updateControlRods(before, call.arg).rodPosition

\* after the high-temperature trip the fuel was still above 750 in the next
\* frame: the step returned the trip again, and the rods moved by one frame
\* of the actuator (0.025 %), not by 5 %
C20_Witness ==
    /\ Did("step")
    /\ before.phase = SCRAMMED
    /\ Trips(returned) = 1
    /\ returned[1].message = "REACTOR TRIP: High temperature"
    /\ before.rodPosition < 95 * PerCent
    /\ reactor.rodPosition = before.rodPosition + 250
    /\ reactor.targetRodPosition = 100 * PerCent
    /\ reactor.phase = SCRAMMED

\* keff as updateNeutronics derives it from totalReactivity
DerivedKeff(totalReactivity) ==
    IF IsNaN(totalReactivity) THEN NaN ELSE KeffOf(totalReactivity)

\* C21 as stated: after reset, after a step and after scram() rodReactivity is
\* calculateRodWorth(rodPosition) and keff is 1 / (1 - totalReactivity / 100000)
\* clamped to [0.85, 1.15].
C21_DerivedAgree ==
    call.op \in {"constructor", "reset", "step", "scram"}
    => /\ reactor.rodReactivity = calculateRodWorth(reactor.rodPosition)
       /\ reactor.keff = DerivedKeff(reactor.totalReactivity)

\* C21: after a step rodReactivity is the worth of the position the actuator
\* left the rods at, which is rodPosition unless the step itself scrammed the
\* reactor, totalReactivity is the sum of the three terms and keff is derived
\* from it.  scram() moves the rods and leaves rodReactivity and keff as they
\* were; reset() stores the worth of 95 % and keff = 0.95.
C21_DerivedAfterStep ==
    /\ Did("step")
       => /\ reactor.rodReactivity
                = calculateRodWorth(updateControlRods(before, Min(call.arg, 50)).rodPosition)
          /\ (before.phase = SCRAMMED \/ reactor.phase # SCRAMMED)
                => reactor.rodReactivity = calculateRodWorth(reactor.rodPosition)
          /\ reactor.totalReactivity
                = (IF IsNaN(reactor.tempReactivity) \/ IsNaN(reactor.xenonReactivity) THEN NaN
                   ELSE reactor.rodReactivity + reactor.tempReactivity
                            + reactor.xenonReactivity)
          /\ reactor.keff = DerivedKeff(reactor.totalReactivity)
    /\ Did("scram")
       => /\ reactor.rodReactivity = before.rodReactivity
          /\ reactor.totalReactivity = before.totalReactivity
          /\ reactor.keff = before.keff
    /\ call.op \in {"constructor", "reset"}
       => /\ reactor.rodReactivity = calculateRodWorth(95 * PerCent)
          /\ reactor.totalReactivity = reactor.rodReactivity
          /\ reactor.keff = 950000

\* a step moved the rods after scram() had kicked them: the worth that was
\* stale after the scram is the worth of the new position again
C21_Witness ==
    /\ Did("step")
    /\ before.phase = SCRAMMED
    /\ before.rodReactivity # calculateRodWorth(before.rodPosition)
    /\ reactor.rodPosition # before.rodPosition
    /\ reactor.rodReactivity = calculateRodWorth(reactor.rodPosition)
    /\ reactor.rodReactivity # before.rodReactivity
    /\ ~IsNaN(reactor.totalReactivity)
    /\ reactor.keff = DerivedKeff(reactor.totalReactivity)

\* the step scrammed the reactor itself: scram() moved the rods and the target
ScrammedInStep == before.phase # SCRAMMED /\ reactor.phase = SCRAMMED

\* C22: a step with dt >= 0 moves rodPosition toward targetRodPosition by
\* min(|target - rodPosition|, 0.5 x min(dt, 0.05)): no overshoot, the gap
\* does not grow, the move is at most 0.025 %, and rodPosition is the target
\* once the gap is within reach (the 5 % insertion of a trip in the same step
\* comes after the actuator and is not its move).
C22_RodActuator ==
    (Did("step") /\ call.arg >= 0 /\ ~ScrammedInStep)
    => LET gap == before.targetRodPosition - before.rodPosition
           maxMove == ROD_SPEED * Min(call.arg, 50)
           move == Min(Abs(gap), maxMove)
           left == reactor.targetRodPosition - reactor.rodPosition
       IN  /\ reactor.targetRodPosition = before.targetRodPosition
           /\ reactor.rodPosition = before.rodPosition + Sign(gap) * move
           /\ Sign(left) \in {0, Sign(gap)}
           /\ Abs(left) <= Abs(gap)
           /\ Abs(reactor.rodPosition - before.rodPosition) <= 250
           /\ Abs(gap) <= maxMove => reactor.rodPosition = reactor.targetRodPosition

\* the rods were 0.005 % from the target and a step of 0.05 s, which could
\* move them by 0.025 %, left them at the target
C22_Witness ==
    /\ Did("step")
    /\ call.arg = 50
    /\ before.rodPosition # before.targetRodPosition
    /\ Abs(before.targetRodPosition - before.rodPosition) < 250
    /\ reactor.rodPosition = before.targetRodPosition
    /\ reactor.phase # SCRAMMED

PowerWarning(time) == Alarm(WARNING, "Power approaching limit", time)
Warned(alarms, alarm) == \E i \in 1..Len(alarms) : alarms[i] = alarm

\* C23: a step returns the power-approach WARNING exactly when, at alarm
\* evaluation, 255 < thermalPower <= 300 and the phase is not SCRAMMED, a trip
\* of the same step included; a step that returns it leaves phase,
\* targetRodPosition and rodPosition as the engines of the step made them.
C23_PowerWarning ==
    Did("step")
    => /\ Warned(returned, PowerWarning(before.time))
          <=> /\ GreaterThan(reactor.thermalPower, 255 * MW)
              /\ LessThan(reactor.thermalPower, SCRAM_POWER + 1)
              /\ reactor.phase # SCRAMMED
       /\ Warned(returned, PowerWarning(before.time))
          => /\ reactor.phase = BeforeAlarms(before, call.arg).phase
             /\ reactor.targetRodPosition = before.targetRodPosition
             /\ reactor.rodPosition = updateControlRods(before, Min(call.arg, 50)).rodPosition

\* a frame at power with 255 < thermalPower <= 300 returned the warning and
\* nothing else, and the rods were where the operator had them
C23_Witness ==
    /\ Did("step")
    /\ returned = <<PowerWarning(before.time)>>
    /\ reactor.thermalPower > 255 * MW
    /\ reactor.thermalPower <= SCRAM_POWER
    /\ reactor.phase = AT_POWER
    /\ reactor.rodPosition = before.rodPosition
    /\ reactor.targetRodPosition = before.targetRodPosition

\* 0 < period < 10, for a period num/den with den > 0
ShortPeriod(period) ==
    /\ ~period.inf
    /\ period.num > 0
    /\ period.num < SCRAM_PERIOD * period.den
ShortPeriodTrip(time) == Alarm(TRIP, "REACTOR TRIP: Short period", time)

\* the alarms of the step that began at the given time are still in the list
Listed(alarms, time) == Len(alarms) < 10 \/ alarms[1].time <= time

\* C24: a step returns the short-period TRIP alarm, and ends with the phase
\* SCRAMMED, exactly when the period it computed satisfies 0 < period < 10.
\* The history holds the period and the phase of every step of the session,
\* and the alarm list the alarms of the latest of them.
C24_ShortPeriodTrip ==
    /\ Did("step")
       => /\ Warned(returned, ShortPeriodTrip(before.time)) <=> ShortPeriod(reactor.period)
          /\ ShortPeriod(reactor.period) => reactor.phase = SCRAMMED
    /\ \A i \in 2..Len(reactor.history) :
          /\ ShortPeriod(reactor.history[i].period) => reactor.history[i].phase = SCRAMMED
          /\ Listed(reactor.alarms, reactor.history[i - 1].t)
             => (ShortPeriod(reactor.history[i].period)
                 <=> Warned(reactor.alarms, ShortPeriodTrip(reactor.history[i - 1].t)))

\* the rods passed 30.9 % on their way out with the reactor at power: the
\* reactivity passed beta, the period of that step was about two seconds
\* where it had been hours the step before, and the step returned the trip
\* and scrammed the reactor
C24_Witness ==
    /\ Did("step")
    /\ ShortPeriod(reactor.period)
    /\ reactor.totalReactivity > BETA_TOTAL
    /\ before.period.num > SCRAM_PERIOD * before.period.den
    /\ before.phase = AT_POWER
    /\ returned = <<ShortPeriodTrip(before.time)>>
    /\ reactor.phase = SCRAMMED
    /\ reactor.targetRodPosition = 100 * PerCent

\* the instance before the step with the power the neutronics of the step
\* computed: what the thermal-hydraulics and the xenon dynamics read
WithPower(s, thermalPower) == [s EXCEPT !.thermalPower = thermalPower]

\* C25: a step runs rod actuation, neutronics, thermal-hydraulics, xenon
\* dynamics, phase classification, energy accounting and alarm evaluation
\* once each and in this order, then advances the time, then takes the
\* snapshot: the rod worth is that of the position moved in this step, the
\* temperature and xenon feedback those of the previous step's temperatures
\* and xenon, temperatures, xenon and energy use the power of this step, the
\* alarms are those of the phase classified in this step and carry the time
\* before the advance, and the snapshot holds the state after all of it.
C25_StepOrder ==
    Did("step")
    => LET dt == Min(call.arg, 50)
           moved == updateControlRods(before, dt)
           heated == updateThermalHydraulics(WithPower(before, reactor.thermalPower), dt)
           poisoned == updateXenonDynamics(WithPower(before, reactor.thermalPower), dt)
           classified == BeforeAlarms(before, call.arg)
           last == reactor.history[Len(reactor.history)]
       IN  /\ reactor.rodReactivity = calculateRodWorth(moved.rodPosition)
           /\ reactor.tempReactivity = calculateTempFeedback(before)
           /\ reactor.xenonReactivity = calculateXenonWorth(before)
           /\ reactor.fuelTemp = heated.fuelTemp
           /\ reactor.coolantTemp = heated.coolantTemp
           /\ reactor.iodineConc = poisoned.iodineConc
           /\ reactor.xenonConc = poisoned.xenonConc
           /\ before.phase # SCRAMMED
              => classified.phase = Classification(reactor.keff, reactor.thermalPower)
           /\ reactor.totalEnergyMWh
                 = EnergyAdd(before.totalEnergyMWh, reactor.thermalPower, dt)
           /\ returned = checkAlarms(classified).alarms
           /\ reactor.phase = checkAlarms(classified).s.phase
           /\ \A i \in 1..Len(returned) : returned[i].time = before.time
           /\ reactor.time = before.time + dt
           /\ Len(reactor.history) > 0
           /\ last.t = reactor.time
           /\ last.phase = reactor.phase
           /\ last.rodPosition = reactor.rodPosition
           /\ last.power = reactor.thermalPower
           /\ last.fuelTemp = reactor.fuelTemp
           /\ last.xenon = reactor.xenonConc

\* a frame of the withdrawal at power: the rods moved, the fuel heated, so
\* that the feedback the step stored is no longer that of its temperatures,
\* and the step returned the power warning stamped with the time it began at
C25_Witness ==
    /\ Did("step")
    /\ reactor.rodPosition = before.rodPosition - 250
    /\ reactor.rodReactivity # before.rodReactivity
    /\ reactor.fuelTemp > before.fuelTemp
    /\ reactor.tempReactivity = calculateTempFeedback(before)
    /\ reactor.tempReactivity # calculateTempFeedback(reactor)
    /\ reactor.xenonConc > before.xenonConc
    /\ reactor.phase = AT_POWER
    /\ returned = <<PowerWarning(before.time)>>
    /\ reactor.time = before.time + 50
    /\ reactor.history[Len(reactor.history)].t = reactor.time

\* C26: the precursor update of a step uses the neutron density clamped to
\* [SOURCE_STRENGTH, 1.0], which is the neutronDensity the step leaves.
C26_PrecursorsUseClamped ==
    Did("step")
    => reactor.precursors
          = [i \in 1..6 |-> PrecursorStep(before.precursors[i], delayedGroups[i],
                                          reactor.neutronDensity, Min(call.arg, 50))]

\* C27: after every step, with rho = totalReactivity / 100000: when |rho| is
\* below 1e-6 (not above it, as the guard is written) the period and the doubling time are infinite and
\* startupRate is 0; otherwise the period is finite, not zero and has the sign
\* of rho, and so has the doubling time; startupRate is not zero only when
\* |period| > 0.1, and then it is 26.06 / period.  No divisor is zero.
C27_PeriodGuard ==
    Did("step")
    => LET rho == reactor.totalReactivity
           period == reactor.period
           doublingTime == reactor.doublingTime
       IN  /\ Abs(rho) <= 1
              => period = Infinity /\ doublingTime = Infinity /\ reactor.startupRate = 0
           /\ Abs(rho) > 1
              => /\ IsFinite(period) /\ IsFinite(doublingTime)
                 /\ period.den > 0 /\ doublingTime.den > 0
                 /\ Sign(period.num) = Sign(rho)
                 /\ Sign(doublingTime.num) = Sign(rho)
           /\ reactor.startupRate # 0
              => /\ IsFinite(period)
                 /\ Abs(period.num) > period.den \div 10
                 /\ Sign(reactor.startupRate) = Sign(period.num)
           /\ reactor.startupRate = StartupRateOf(period)

HighPowerTrip(time) == Alarm(TRIP, "REACTOR TRIP: High power", time)
HighTemperatureTrip(time) == Alarm(TRIP, "REACTOR TRIP: High temperature", time)

StartupRateWarning(time) == Alarm(WARNING, "High startup rate", time)

\* C29: no step returns the high startup-rate WARNING: startupRate > 1.0 goes
\* with a positive reactivity and keff > 1, and the phase is SUBCRITICAL only
\* with keff < 0.999, so the two are never true together (the snapshots hold
\* the startup rate, the keff and the phase of every step).
C29_NoStartupRateWarning ==
    /\ Did("step") => ~Warned(returned, StartupRateWarning(before.time))
    /\ \A i \in 1..Len(reactor.alarms) : reactor.alarms[i].message # "High startup rate"
    /\ ~(reactor.startupRate > 1 * Million /\ reactor.phase = SUBCRITICAL)
    /\ Did("step")
       => /\ reactor.startupRate > 1 * Million
             => /\ reactor.period.num > 0
                /\ reactor.totalReactivity > 0
                /\ reactor.keff > Million
          /\ reactor.phase = SUBCRITICAL => LessThan(reactor.keff, 999000)
    /\ \A i \in 2..Len(reactor.history) :
          /\ reactor.history[i].startupRate > 1 * Million
             => reactor.history[i].keff > Million /\ reactor.history[i].phase # SUBCRITICAL
          /\ reactor.history[i].phase = SUBCRITICAL
             => LessThan(reactor.history[i].keff, 999000)

\* the step of the short-period trip: the startup rate is over ten decades a
\* minute, keff is above 1, the phase is not SUBCRITICAL and the step returned
\* the trip and no warning
C29_Witness ==
    /\ Did("step")
    /\ reactor.startupRate > 1 * Million
    /\ reactor.keff > Million
    /\ before.phase = AT_POWER
    /\ returned = <<ShortPeriodTrip(before.time)>>
    /\ \E i \in 2..Len(reactor.history) : reactor.history[i].phase = SUBCRITICAL

\* C30: the phase goes from another value to SCRAMMED only in a scram() call
\* or in a step that returns a TRIP alarm; every step that returns a TRIP
\* alarm ends with the phase SCRAMMED; and in the list a step returns no
\* WARNING alarm comes before a TRIP alarm.  Of the steps of the session,
\* whose phases the snapshots hold, only the one after the operator's scram
\* at ScramTime and the one whose TRIP alarm is in the alarm list begin
\* before the phase is SCRAMMED and end with it SCRAMMED.
C30_ScrammedByTripOrCall ==
    /\ [][(reactor.phase # SCRAMMED /\ reactor'.phase = SCRAMMED)
            => (call'.op = "scram" \/ (call'.op = "step" /\ Tripped(returned')))]_vars
    /\ []((Did("step") /\ Tripped(returned)) => reactor.phase = SCRAMMED)
    /\ [](\A i, j \in 1..Len(returned) :
             (i < j /\ returned[i].level = WARNING) => returned[j].level # TRIP)
    /\ [](\A i \in 2..Len(reactor.history) :
             (reactor.history[i - 1].phase # SCRAMMED /\ reactor.history[i].phase = SCRAMMED)
             => \/ reactor.history[i - 1].t = ScramTime
                \/ \E k \in 1..Len(reactor.alarms) :
                      /\ reactor.alarms[k].level = TRIP
                      /\ reactor.alarms[k].time = reactor.history[i - 1].t
                \/ ~Listed(reactor.alarms, reactor.history[i - 1].t))

\* the step of the short-period trip took the phase from AT_POWER to SCRAMMED
\* and returned the TRIP alarm, after frames that returned warnings only
C30_Witness ==
    /\ Did("step")
    /\ before.phase = AT_POWER
    /\ reactor.phase = SCRAMMED
    /\ Trips(returned) = 1
    /\ Len(returned) = 1
    /\ \E k \in 1..Len(reactor.alarms) : reactor.alarms[k].level = WARNING

=============================================================================
